---------------------------- MODULE Spec2Model ----------------------------
(***************************************************************************)
(* Model of fitness_tracker_data_parsing: parse_tcx.py (get_tcx_lap_data,  *)
(* get_tcx_point_data, get_dataframes) and parse_gpx.py                    *)
(* (get_gpx_point_data, get_dataframe_from_gpx).                           *)
(*                                                                         *)
(* An XML element is a record: `present` says whether find() returns the   *)
(* element (present) or None (absent), `text` is its .text.  A Python dict *)
(* is a function from its keys to values; a raised exception is a result   *)
(* whose `exc` names it.                                                   *)
(***************************************************************************)
EXTENDS Integers, Sequences, FiniteSets, TLC

VARIABLES fmt, file, pc, exc, laps, lap_i, lap_no, track, pt_i,
          single_point_data, laps_data, points_data, laps_df, points_df,
          segment, data, df

vars == <<fmt, file, pc, exc, laps, lap_i, lap_no, track, pt_i,
          single_point_data, laps_data, points_data, laps_df, points_df,
          segment, data, df>>

(***************************************************************************)
(* Bounds of the model.                                                    *)
(***************************************************************************)
\* Lap elements in the first Activity of a TCX file.
MaxLaps == 2
\* Trackpoint elements in the first Activity of a TCX file, all laps together.
MaxPoints == 2
\* Track points in the first segment of the first track of a GPX file.
MaxGpxPoints == 2

(***************************************************************************)
(* Python values.                                                          *)
(***************************************************************************)
NoExc == "none"
\* .text of an element without text (Python None).
NoText == "<None>"
PyNone == [type |-> "NoneType"]
\* A null cell of a DataFrame (NaN / NaT / None).
Null == [type |-> "null"]
IntVal(n) == [type |-> "int", n |-> n]
FloatVal(r) == [type |-> "float", repr |-> r]
DatetimeVal(r) == [type |-> "datetime", repr |-> r]
TimedeltaVal(f) == [type |-> "timedelta", seconds |-> f.repr]

Ok(v) == [exc |-> NoExc, val |-> v]
Raise(e) == [exc |-> e, val |-> PyNone]

\* float(text) on the texts of the model: the repr of the float it returns.
FloatTable ==
    [t \in {"1000", "1609.34", "65.0", "150", "80", "3.5", "12.5", "53.3", "-6.2"} |->
        CASE t = "1000" -> "1000.0"
          [] t = "150" -> "150.0"
          [] t = "80" -> "80.0"
          [] OTHER -> t]
PyFloat(t) ==
    IF t = NoText THEN Raise("TypeError")
    ELSE IF t \in DOMAIN FloatTable THEN Ok(FloatVal(FloatTable[t]))
    ELSE Raise("ValueError")

\* int(text): only a string of digits (with a sign) converts; "65.0" does not.
IntTable ==
    [t \in {"1000", "150", "80"} |->
        CASE t = "1000" -> 1000 [] t = "150" -> 150 [] OTHER -> 80]
PyInt(t) ==
    IF t = NoText THEN Raise("TypeError")
    ELSE IF t \in DOMAIN IntTable THEN Ok(IntVal(IntTable[t]))
    ELSE Raise("ValueError")

\* dateutil.parser.parse(text).
TimeTable ==
    [t \in {"2021-05-01T10:00:00Z", "2021-05-01T10:05:00Z"} |->
        IF t = "2021-05-01T10:00:00Z" THEN "2021-05-01 10:00:00+00:00"
        ELSE "2021-05-01 10:05:00+00:00"]
DpParse(t) ==
    IF t = NoText THEN Raise("TypeError")
    ELSE IF t \in DOMAIN TimeTable THEN Ok(DatetimeVal(TimeTable[t]))
    ELSE Raise("ValueError")

EmptyDict == [k \in {} |-> Null]
Put(d, k, v) == [x \in DOMAIN d \cup {k} |-> IF x = k THEN v ELSE d[x]]

(***************************************************************************)
(* XML elements.                                                           *)
(***************************************************************************)
Leaf(t) == [present |-> TRUE, text |-> t]
NoLeaf == [present |-> FALSE, text |-> NoText]
\* An element holding its number in a nested Value child.
Wrap(v) == [present |-> TRUE, Value |-> v]
NoWrap == [present |-> FALSE, Value |-> NoLeaf]
Position(lat, lon) ==
    [present |-> TRUE, LatitudeDegrees |-> lat, LongitudeDegrees |-> lon]
NoPosition ==
    [present |-> FALSE, LatitudeDegrees |-> NoLeaf, LongitudeDegrees |-> NoLeaf]
\* ns3:Speed: a child of the Trackpoint itself, or nested under Extensions/TPX.
SpeedElem(t, nested) == [present |-> TRUE, text |-> t, nested |-> nested]
NoSpeed == [present |-> FALSE, text |-> NoText, nested |-> FALSE]

\* point.find('.//ns3:Speed'): the element at any depth below the Trackpoint.
FindSpeed(point) == point.Speed

(***************************************************************************)
(* parse_tcx.py                                                            *)
(***************************************************************************)
POINTS_COLUMN_NAMES ==
    <<"latitude", "longitude", "elevation", "time", "heart_rate", "cadence",
      "speed", "lap">>

\* LAPS_COLUMN_NAMES with the distance column under another name.
LAPS_COLUMN_NAMES_DistanceM ==
    <<"number", "start_time", "distance_m", "total_time", "max_speed", "max_hr",
      "avg_hr">>
LAPS_COLUMN_NAMES ==
    <<"number", "start_time", "distance", "total_time", "max_speed", "max_hr",
      "avg_hr">>

\* One statement of an extractor: st is [exc, val] with val the dict so far;
\* a statement after a raised exception does not run.
SetFrom(st, key, r) ==
    IF r.exc # NoExc THEN Raise(r.exc) ELSE Ok(Put(st.val, key, r.val))

\* lap.attrib['StartTime'], dp.parse
LapStartTime(st, lap) ==
    IF st.exc # NoExc THEN st
    ELSE IF ~lap.StartTime.present THEN Raise("KeyError")
    ELSE SetFrom(st, "start_time", DpParse(lap.StartTime.text))

LapDistance(st, lap) ==
    IF st.exc # NoExc \/ ~lap.DistanceMeters.present THEN st
    ELSE SetFrom(st, "distance", PyFloat(lap.DistanceMeters.text))

LapTotalTime(st, lap) ==
    IF st.exc # NoExc \/ ~lap.TotalTimeSeconds.present THEN st
    ELSE LET f == PyFloat(lap.TotalTimeSeconds.text)
         IN  IF f.exc # NoExc THEN Raise(f.exc)
             ELSE SetFrom(st, "total_time", Ok(TimedeltaVal(f.val)))

LapMaxSpeed(st, lap) ==
    IF st.exc # NoExc \/ ~lap.MaximumSpeed.present THEN st
    ELSE SetFrom(st, "max_speed", PyFloat(lap.MaximumSpeed.text))

\* float(elem.find('ns:Value', NAMESPACES).text): find gives None when there
\* is no Value child, and None.text raises AttributeError.
WrappedFloat(elem) ==
    IF ~elem.Value.present THEN Raise("AttributeError")
    ELSE PyFloat(elem.Value.text)

LapMaxHr(st, lap) ==
    IF st.exc # NoExc \/ ~lap.MaximumHeartRateBpm.present THEN st
    ELSE SetFrom(st, "max_hr", WrappedFloat(lap.MaximumHeartRateBpm))

LapAvgHr(st, lap) ==
    IF st.exc # NoExc \/ ~lap.AverageHeartRateBpm.present THEN st
    ELSE SetFrom(st, "avg_hr", WrappedFloat(lap.AverageHeartRateBpm))

get_tcx_lap_data(lap) ==
    LapAvgHr(LapMaxHr(LapMaxSpeed(LapTotalTime(LapDistance(
        LapStartTime(Ok(EmptyDict), lap), lap), lap), lap), lap), lap)

\* position.find('ns:LatitudeDegrees', NAMESPACES).text and its float
PointCoordinate(st, key, elem) ==
    IF st.exc # NoExc THEN st
    ELSE IF ~elem.present THEN Raise("AttributeError")
    ELSE SetFrom(st, key, PyFloat(elem.text))

\* point.find('ns:Time', NAMESPACES).text: no check that the element is there.
\* PointTime with the Time lookup guarded like the optional elements.
PointTimeOptional(st, point) ==
    IF st.exc # NoExc \/ ~point.Time.present THEN st
    ELSE SetFrom(st, "time", DpParse(point.Time.text))
PointTime(st, point) ==
    IF st.exc # NoExc THEN st
    ELSE IF ~point.Time.present THEN Raise("AttributeError")
    ELSE SetFrom(st, "time", DpParse(point.Time.text))

PointElevation(st, point) ==
    IF st.exc # NoExc \/ ~point.AltitudeMeters.present THEN st
    ELSE SetFrom(st, "elevation", PyFloat(point.AltitudeMeters.text))

PointHeartRate(st, point) ==
    IF st.exc # NoExc \/ ~point.HeartRateBpm.present THEN st
    ELSE IF ~point.HeartRateBpm.Value.present THEN Raise("AttributeError")
    ELSE SetFrom(st, "heart_rate", PyInt(point.HeartRateBpm.Value.text))

\* PointCadence with a default of 0 for a missing Cadence.
PointCadenceDefaultZero(st, point) ==
    IF st.exc # NoExc THEN st
    ELSE IF ~point.Cadence.present THEN Ok(Put(st.val, "cadence", IntVal(0)))
    ELSE SetFrom(st, "cadence", PyInt(point.Cadence.text))
PointCadence(st, point) ==
    IF st.exc # NoExc \/ ~point.Cadence.present THEN st
    ELSE SetFrom(st, "cadence", PyInt(point.Cadence.text))

PointSpeed(st, point) ==
    IF st.exc # NoExc \/ ~FindSpeed(point).present THEN st
    ELSE SetFrom(st, "speed", PyFloat(FindSpeed(point).text))

\* What a call of get_tcx_point_data gives: a dict, None, or an exception.
PointResult(st) ==
    IF st.exc # NoExc THEN [kind |-> "raise", exc |-> st.exc, val |-> EmptyDict]
    ELSE [kind |-> "record", exc |-> NoExc, val |-> st.val]
PointNone == [kind |-> "none", exc |-> NoExc, val |-> EmptyDict]

\* get_tcx_point_data without the early return for a missing Position.
get_tcx_point_data_KeepAll(point) ==
    PointResult(PointSpeed(PointCadence(PointHeartRate(PointElevation(
        PointTime(
            IF point.Position.present
            THEN PointCoordinate(
                     PointCoordinate(Ok(EmptyDict), "latitude",
                                     point.Position.LatitudeDegrees),
                     "longitude", point.Position.LongitudeDegrees)
            ELSE Ok(EmptyDict),
            point), point), point), point), point))
get_tcx_point_data(point) ==
    IF ~point.Position.present THEN PointNone
    ELSE PointResult(PointSpeed(PointCadence(PointHeartRate(PointElevation(
             PointTime(
                 PointCoordinate(
                     PointCoordinate(Ok(EmptyDict), "latitude",
                                     point.Position.LatitudeDegrees),
                     "longitude", point.Position.LongitudeDegrees),
                 point), point), point), point), point))

\* if single_point_data: a dict is true unless it is empty; None is false.
Truthy(r) == r.kind = "record" /\ DOMAIN r.val # {}

\* pd.DataFrame(rows, columns=columns): one row per dict, in order; a cell is
\* the dict's value under the column's name, null where the dict has no such
\* key (or holds None); keys that are no column are dropped.  A cell keeps
\* the Python value: the dtype pandas gives a whole column is not modelled.
FrameCell(d, col) == IF col \in DOMAIN d /\ d[col] # PyNone THEN d[col] ELSE Null
Range(s) == {s[i] : i \in DOMAIN s}
DataFrame(rows, columns) ==
    [columns |-> columns,
     index |-> [i \in DOMAIN rows |-> IntVal(i - 1)],
     rows |-> [i \in DOMAIN rows |-> [c \in Range(columns) |-> FrameCell(rows[i], c)]]]

\* df.set_index(name, inplace=True): the column becomes the index.
SelectSeq2(s, x) == SelectSeq(s, LAMBDA c : c # x)
set_index(frame, name) ==
    [columns |-> SelectSeq2(frame.columns, name),
     index |-> [i \in DOMAIN frame.rows |-> frame.rows[i][name]],
     rows |-> [i \in DOMAIN frame.rows |->
                  [c \in Range(frame.columns) \ {name} |-> frame.rows[i][c]]]]

NoFrame == [columns |-> <<>>, index |-> <<>>, rows |-> <<>>]

(***************************************************************************)
(* parse_gpx.py                                                            *)
(***************************************************************************)
COLUMN_NAMES ==
    <<"latitude", "longitude", "elevation", "time", "heart_rate", "cadence">>

\* try: data[key] = int(elem.find(tag, NAMESPACES).text)
\* except AttributeError: pass
GpxExtension(st, key, elem) ==
    IF st.exc # NoExc \/ ~elem.present THEN st
    ELSE SetFrom(st, key, PyInt(elem.text))

get_gpx_point_data(point) ==
    LET base == [k \in {"latitude", "longitude", "elevation", "time"} |-> point[k]]
    IN  IF point.extensions = <<>> THEN Raise("IndexError")
        ELSE GpxExtension(
                 GpxExtension(Ok(base), "heart_rate", point.extensions[1].hr),
                 "cadence", point.extensions[1].cad)

(***************************************************************************)
(* Input files.                                                            *)
(***************************************************************************)
T1 == "2021-05-01T10:00:00Z"
T2 == "2021-05-01T10:05:00Z"

Trackpoint(pos, time, alt, hr, cad, speed) ==
    [Position |-> pos, Time |-> time, AltitudeMeters |-> alt,
     HeartRateBpm |-> hr, Cadence |-> cad, Speed |-> speed]
Here == Position(Leaf("53.3"), Leaf("-6.2"))
\* Position, time and every sensor value.
PtFull == Trackpoint(Here, Leaf(T1), Leaf("12.5"), Wrap(Leaf("150")), Leaf("80"),
                     SpeedElem("3.5", TRUE))
\* Position and time only.
PtBare == Trackpoint(Here, Leaf(T2), NoLeaf, NoWrap, NoLeaf, NoSpeed)
\* No Position (a sample taken without a GPS fix).
PtNoPos == Trackpoint(NoPosition, Leaf(T1), NoLeaf, Wrap(Leaf("150")), NoLeaf, NoSpeed)
\* Neither Position nor Time.
PtNeither == Trackpoint(NoPosition, NoLeaf, NoLeaf, NoWrap, Leaf("80"), NoSpeed)
\* Position but no Time.
PtNoTime == Trackpoint(Here, NoLeaf, Leaf("12.5"), NoWrap, NoLeaf, NoSpeed)
TcxPoints == {PtFull, PtBare, PtNoPos, PtNeither, PtNoTime}

Lap(start, dist, total, speed, maxhr, avghr, tracks) ==
    [StartTime |-> start, DistanceMeters |-> dist, TotalTimeSeconds |-> total,
     MaximumSpeed |-> speed, MaximumHeartRateBpm |-> maxhr,
     AverageHeartRateBpm |-> avghr, tracks |-> tracks]
LapFull(tracks) ==
    Lap(Leaf(T1), Leaf("1000"), Leaf("65.0"), Leaf("3.5"), Wrap(Leaf("150")),
        Wrap(Leaf("80")), tracks)
LapBare(tracks) == Lap(Leaf(T2), NoLeaf, NoLeaf, NoLeaf, NoWrap, NoWrap, tracks)
\* A MaximumHeartRateBpm element without its Value child.
LapHrNoValue(tracks) ==
    Lap(Leaf(T2), Leaf("1609.34"), NoLeaf, NoLeaf, Wrap(NoLeaf), NoWrap, tracks)
LapShapes == {"full", "bare", "hr_no_value"}

SeqsOfLen(S, n) == [1..n -> S]
NoTrack == -1
RECURSIVE PointsBefore(_, _)
\* The Trackpoints of the laps before lap j, counts[i] being the number of
\* Trackpoints of lap i (NoTrack: the lap has no Track child).
PointsBefore(counts, j) ==
    IF j <= 1 THEN 0
    ELSE PointsBefore(counts, j - 1)
         + (IF counts[j - 1] = NoTrack THEN 0 ELSE counts[j - 1])

\* The Activity whose lap j has the shape shape[j] and holds the next
\* counts[j] Trackpoints of pts in one Track.
Activity(shape, counts, pts) ==
    [j \in DOMAIN counts |->
        LET tracks ==
              IF counts[j] = NoTrack THEN <<>>
              ELSE <<[i \in 1..counts[j] |-> pts[PointsBefore(counts, j) + i]]>>
        IN  CASE shape[j] = "full" -> LapFull(tracks)
              [] shape[j] = "bare" -> LapBare(tracks)
              [] OTHER -> LapHrNoValue(tracks)]

\* A second Activity element, which get_dataframes never reads.
OtherActivity == <<LapFull(<<<<PtFull>>>>), LapBare(<<<<PtBare, PtFull>>>>)>>

TcxFile(hasActivities, activities) ==
    [hasActivities |-> hasActivities, activities |-> activities]

\* The TCX files of the model: a first Activity of at most MaxLaps laps and
\* at most MaxPoints Trackpoints, followed by the Activity elements of more;
\* a file whose Activities element is empty; a file without one.
IsTcxFile(f, more) ==
    \/ \E n \in 0..MaxLaps, total \in 0..MaxPoints :
         \E shape \in [1..n -> LapShapes], counts \in [1..n -> NoTrack..MaxPoints],
            pts \in [1..total -> TcxPoints] :
            /\ PointsBefore(counts, n + 1) = total
            /\ f = TcxFile(TRUE, <<Activity(shape, counts, pts)>> \o more)
    \/ f = TcxFile(TRUE, <<>>)
    \/ f = TcxFile(FALSE, <<>>)

\* A GPX track point as gpxpy gives it: typed attributes (None when the file
\* has no such child) and the children of its extensions element.
GpxPoint(ele, time, extensions) ==
    [latitude |-> FloatVal("53.3"), longitude |-> FloatVal("-6.2"),
     elevation |-> ele, time |-> time, extensions |-> extensions]
TrackPointExtension(hr, cad) == [hr |-> hr, cad |-> cad]
GpxTime1 == DatetimeVal(TimeTable[T1])
GpxTime2 == DatetimeVal(TimeTable[T2])
GpxFull ==
    GpxPoint(FloatVal("12.5"), GpxTime1, <<TrackPointExtension(Leaf("150"), Leaf("80"))>>)
GpxNoHr ==
    GpxPoint(FloatVal("12.5"), GpxTime2, <<TrackPointExtension(NoLeaf, Leaf("80"))>>)
GpxNoSensors == GpxPoint(PyNone, GpxTime1, <<TrackPointExtension(NoLeaf, NoLeaf)>>)
\* A point without any extension.
GpxNoExtension == GpxPoint(FloatVal("12.5"), GpxTime2, <<>>)
GpxPoints == {GpxFull, GpxNoHr, GpxNoSensors, GpxNoExtension}

Segments == UNION {SeqsOfLen(GpxPoints, n) : n \in 0..MaxGpxPoints}
\* Segments and tracks after the first, which get_dataframe_from_gpx never reads.
OtherSegment == <<GpxNoHr, GpxFull>>
OtherTrack == <<<<GpxFull>>, <<GpxNoSensors>>>>
GpxFile(tracks) == [tracks |-> tracks]
GpxFiles ==
    {GpxFile(<<<<seg>>>>) : seg \in Segments}
    \cup {GpxFile(<<<<seg, OtherSegment>>, OtherTrack>>) : seg \in Segments}
    \cup {GpxFile(<<>>), GpxFile(<<<<>>>>)}

(***************************************************************************)
(* The two scripts as state machines.                                      *)
(***************************************************************************)
Start(f) ==
    /\ fmt = f
    /\ pc = "start"
    /\ exc = NoExc
    /\ laps = <<>>
    /\ lap_i = 1
    /\ lap_no = 1
    /\ track = <<>>
    /\ pt_i = 1
    /\ single_point_data = PointNone
    /\ laps_data = <<>>
    /\ points_data = <<>>
    /\ laps_df = NoFrame
    /\ points_df = NoFrame
    /\ segment = <<>>
    /\ data = <<>>
    /\ df = NoFrame

\* The file holds one Activity.
Init ==
    \/ IsTcxFile(file, <<>>) /\ Start("tcx")
    \/ file \in GpxFiles /\ Start("gpx")

\* The file holds two Activity elements.
InitActivities ==
    \/ IsTcxFile(file, <<OtherActivity>>) /\ Start("tcx")
    \/ file \in GpxFiles /\ Start("gpx")

\* An uncaught exception ends the call: nothing is returned.
Fail(e) == pc' = "raised" /\ exc' = e

RECURSIVE Concat(_)
Concat(seqs) == IF seqs = <<>> THEN <<>> ELSE Head(seqs) \o Concat(Tail(seqs))

\* TcxOpen taking the laps of every Activity.
TcxOpen_EveryActivity ==
    /\ fmt = "tcx" /\ pc = "start"
    /\ IF ~file.hasActivities
       THEN Fail("TypeError") /\ UNCHANGED <<laps, lap_no>>
       ELSE IF file.activities = <<>>
       THEN Fail("IndexError") /\ UNCHANGED <<laps, lap_no>>
       ELSE /\ laps' = Concat(file.activities)
            /\ lap_no' = 1
            /\ pc' = "laps"
            /\ UNCHANGED exc
    /\ UNCHANGED <<fmt, file, lap_i, track, pt_i, single_point_data, laps_data,
                   points_data, laps_df, points_df, segment, data, df>>

\* get_dataframes: parse, the first child of Activities, the empty lists.
TcxOpen ==
    /\ fmt = "tcx" /\ pc = "start"
    /\ IF ~file.hasActivities
       THEN Fail("TypeError") /\ UNCHANGED <<laps, lap_no>>
       ELSE IF file.activities = <<>>
       THEN Fail("IndexError") /\ UNCHANGED <<laps, lap_no>>
       ELSE /\ laps' = file.activities[1]
            /\ lap_no' = 1
            /\ pc' = "laps"
            /\ UNCHANGED exc
    /\ UNCHANGED <<fmt, file, lap_i, track, pt_i, single_point_data, laps_data,
                   points_data, laps_df, points_df, segment, data, df>>

\* LapBegin treating a lap without Track as one without Trackpoints.
LapBegin_NoTrackIsEmpty ==
    /\ fmt = "tcx" /\ pc = "laps" /\ lap_i <= Len(laps)
    /\ LET lap == laps[lap_i]
           single_lap_data == get_tcx_lap_data(lap)
       IN  IF single_lap_data.exc # NoExc
           THEN Fail(single_lap_data.exc) /\ UNCHANGED <<laps_data, track, pt_i>>
           ELSE /\ laps_data' =
                      Append(laps_data, Put(single_lap_data.val, "number", IntVal(lap_no)))
                /\ track' = IF lap.tracks = <<>> THEN <<>> ELSE lap.tracks[1]
                /\ pt_i' = 1
                /\ pc' = "points"
                /\ UNCHANGED exc
    /\ UNCHANGED <<fmt, file, laps, lap_i, lap_no, single_point_data, points_data,
                   laps_df, points_df, segment, data, df>>

\* The head of the loop over the laps: the lap's record, its number, the
\* lookup of its Track and of the Track's Trackpoints.
LapBegin ==
    /\ fmt = "tcx" /\ pc = "laps" /\ lap_i <= Len(laps)
    /\ LET lap == laps[lap_i]
           single_lap_data == get_tcx_lap_data(lap)
       IN  IF single_lap_data.exc # NoExc
           THEN Fail(single_lap_data.exc) /\ UNCHANGED <<laps_data, track, pt_i>>
           ELSE /\ laps_data' =
                      Append(laps_data, Put(single_lap_data.val, "number", IntVal(lap_no)))
                /\ IF lap.tracks = <<>>
                   THEN Fail("AttributeError") /\ UNCHANGED <<track, pt_i>>
                   ELSE /\ track' = lap.tracks[1]
                        /\ pt_i' = 1
                        /\ pc' = "points"
                        /\ UNCHANGED exc
    /\ UNCHANGED <<fmt, file, laps, lap_i, lap_no, single_point_data, points_data,
                   laps_df, points_df, segment, data, df>>

\* single_point_data = get_tcx_point_data(point) for the next Trackpoint.
PointExtract ==
    /\ fmt = "tcx" /\ pc = "points" /\ pt_i <= Len(track)
    /\ single_point_data' = get_tcx_point_data(track[pt_i])
    /\ IF single_point_data'.kind = "raise"
       THEN Fail(single_point_data'.exc)
       ELSE pc' = "point_done" /\ UNCHANGED exc
    /\ UNCHANGED <<fmt, file, laps, lap_i, lap_no, track, pt_i, laps_data,
                   points_data, laps_df, points_df, segment, data, df>>

\* PointAppend inserting the record at the head of points_data.
PointAppend_Prepend ==
    /\ fmt = "tcx" /\ pc = "point_done"
    /\ points_data' =
          IF Truthy(single_point_data)
          THEN <<Put(single_point_data.val, "lap", IntVal(lap_no))>> \o points_data
          ELSE points_data
    /\ pt_i' = pt_i + 1
    /\ pc' = "points"
    /\ UNCHANGED <<fmt, file, exc, laps, lap_i, lap_no, track, single_point_data,
                   laps_data, laps_df, points_df, segment, data, df>>

\* if single_point_data: the lap number is attached and the record appended.
PointAppend ==
    /\ fmt = "tcx" /\ pc = "point_done"
    /\ points_data' =
          IF Truthy(single_point_data)
          THEN Append(points_data, Put(single_point_data.val, "lap", IntVal(lap_no)))
          ELSE points_data
    /\ pt_i' = pt_i + 1
    /\ pc' = "points"
    /\ UNCHANGED <<fmt, file, exc, laps, lap_i, lap_no, track, single_point_data,
                   laps_data, laps_df, points_df, segment, data, df>>

\* LapEnd advancing lap_no only past a lap that gave a point record.
LapEnd_CountOnlyLapsWithPoints ==
    /\ fmt = "tcx" /\ pc = "points" /\ pt_i > Len(track)
    /\ lap_no' = IF points_data # <<>>
                    /\ points_data[Len(points_data)]["lap"] = IntVal(lap_no)
                 THEN lap_no + 1 ELSE lap_no
    /\ lap_i' = lap_i + 1
    /\ pc' = "laps"
    /\ UNCHANGED <<fmt, file, exc, laps, track, pt_i, single_point_data, laps_data,
                   points_data, laps_df, points_df, segment, data, df>>

\* lap_no += 1, after the lap's last Trackpoint.
LapEnd ==
    /\ fmt = "tcx" /\ pc = "points" /\ pt_i > Len(track)
    /\ lap_no' = lap_no + 1
    /\ lap_i' = lap_i + 1
    /\ pc' = "laps"
    /\ UNCHANGED <<fmt, file, exc, laps, track, pt_i, single_point_data, laps_data,
                   points_data, laps_df, points_df, segment, data, df>>

\* After the last lap: the two DataFrames are built and returned.
TcxFrames ==
    /\ fmt = "tcx" /\ pc = "laps" /\ lap_i > Len(laps)
    /\ laps_df' = set_index(DataFrame(laps_data, LAPS_COLUMN_NAMES), "number")
    /\ points_df' = DataFrame(points_data, POINTS_COLUMN_NAMES)
    /\ pc' = "returned"
    /\ UNCHANGED <<fmt, file, exc, laps, lap_i, lap_no, track, pt_i,
                   single_point_data, laps_data, points_data, segment, data, df>>

\* GpxOpen taking the points of every segment of the first track.
GpxOpen_EverySegment ==
    /\ fmt = "gpx" /\ pc = "start"
    /\ IF file.tracks = <<>> \/ file.tracks[1] = <<>>
       THEN Fail("IndexError") /\ UNCHANGED segment
       ELSE segment' = Concat(file.tracks[1]) /\ pc' = "gpx_points" /\ UNCHANGED exc
    /\ UNCHANGED <<fmt, file, laps, lap_i, lap_no, track, pt_i, single_point_data,
                   laps_data, points_data, laps_df, points_df, data, df>>

\* get_dataframe_from_gpx: parse, gpx.tracks[0].segments[0].
GpxOpen ==
    /\ fmt = "gpx" /\ pc = "start"
    /\ IF file.tracks = <<>> \/ file.tracks[1] = <<>>
       THEN Fail("IndexError") /\ UNCHANGED segment
       ELSE segment' = file.tracks[1][1] /\ pc' = "gpx_points" /\ UNCHANGED exc
    /\ UNCHANGED <<fmt, file, laps, lap_i, lap_no, track, pt_i, single_point_data,
                   laps_data, points_data, laps_df, points_df, data, df>>

\* One element of the list comprehension over segment.points.
GpxPointStep ==
    /\ fmt = "gpx" /\ pc = "gpx_points" /\ pt_i <= Len(segment)
    /\ LET r == get_gpx_point_data(segment[pt_i])
       IN  IF r.exc # NoExc
           THEN Fail(r.exc) /\ UNCHANGED <<data, pt_i>>
           ELSE /\ data' = Append(data, r.val)
                /\ pt_i' = pt_i + 1
                /\ UNCHANGED <<pc, exc>>
    /\ UNCHANGED <<fmt, file, laps, lap_i, lap_no, track, single_point_data,
                   laps_data, points_data, laps_df, points_df, segment, df>>

GpxFrame ==
    /\ fmt = "gpx" /\ pc = "gpx_points" /\ pt_i > Len(segment)
    /\ df' = DataFrame(data, COLUMN_NAMES)
    /\ pc' = "returned"
    /\ UNCHANGED <<fmt, file, exc, laps, lap_i, lap_no, track, pt_i,
                   single_point_data, laps_data, points_data, laps_df, points_df,
                   segment, data>>

Next ==
    \/ TcxOpen
    \/ LapBegin
    \/ PointExtract
    \/ PointAppend
    \/ LapEnd
    \/ TcxFrames
    \/ GpxOpen
    \/ GpxPointStep
    \/ GpxFrame

Spec == Init /\ [][Next]_vars

SpecActivities == InitActivities /\ [][Next]_vars

(***************************************************************************)
(* Files of one lap with one Trackpoint, and of one GPX point, in which    *)
(* every child element is in turn absent, well formed and malformed.       *)
(***************************************************************************)
AllTrackpoints ==
    {Trackpoint(pos, time, alt, hr, cad, speed) :
        pos \in {NoPosition} \cup
                {Position(lat, lon) : lat \in {NoLeaf, Leaf("53.3"), Leaf("north")},
                                      lon \in {NoLeaf, Leaf("-6.2")}},
        time \in {NoLeaf, Leaf(T1), Leaf("yesterday"), Leaf(NoText)},
        alt \in {NoLeaf, Leaf("12.5"), Leaf(NoText)},
        hr \in {NoWrap, Wrap(NoLeaf), Wrap(Leaf("150")), Wrap(Leaf("65.0"))},
        cad \in {NoLeaf, Leaf("80")},
        speed \in {NoSpeed, SpeedElem("3.5", TRUE), SpeedElem("3.5", FALSE)}}

AllLaps ==
    {Lap(start, dist, total, speed, maxhr, avghr, <<<<PtFull>>>>) :
        start \in {NoLeaf, Leaf(T1), Leaf("yesterday")},
        dist \in {NoLeaf, Leaf("1000"), Leaf("1609.34"), Leaf(NoText)},
        total \in {NoLeaf, Leaf("65.0")},
        speed \in {NoLeaf, Leaf("3.5")},
        maxhr \in {NoWrap, Wrap(NoLeaf), Wrap(Leaf("150"))},
        avghr \in {NoWrap, Wrap(NoLeaf), Wrap(Leaf("80"))}}

AllGpxPoints ==
    {GpxPoint(ele, GpxTime1, exts) :
        ele \in {PyNone, FloatVal("12.5")},
        exts \in {<<>>} \cup
                 UNION {{<<TrackPointExtension(hr, cad)>>,
                         <<TrackPointExtension(hr, cad),
                           TrackPointExtension(Leaf("80"), Leaf("150"))>>} :
                        hr \in {NoLeaf, Leaf("150"), Leaf("65.0"), Leaf(NoText)},
                        cad \in {NoLeaf, Leaf("80"), Leaf(NoText)}}}

InitFields ==
    \/ /\ \/ \E lap \in AllLaps : file = TcxFile(TRUE, <<<<lap>>>>)
          \/ \E p \in AllTrackpoints : file = TcxFile(TRUE, <<<<LapFull(<<<<p>>>>)>>>>)
       /\ Start("tcx")
    \/ /\ \E p \in AllGpxPoints : file = GpxFile(<<<<<<p>>>>>>)
       /\ Start("gpx")

SpecFields == InitFields /\ [][Next]_vars

(***************************************************************************)
(* What the input says, read off the file alone.                           *)
(***************************************************************************)
TcxHasActivity == fmt = "tcx" /\ file.hasActivities /\ file.activities # <<>>
FirstActivity == file.activities[1]
\* The Trackpoints the loop visits in a lap: those of its first Track.
Iterated(lap) == IF lap.tracks = <<>> THEN <<>> ELSE lap.tracks[1]
RECURSIVE IteratedUpTo(_)
\* The Trackpoints of laps 1..k in document order, each with its lap's position.
IteratedUpTo(k) ==
    IF k = 0 THEN <<>>
    ELSE IteratedUpTo(k - 1)
         \o [i \in DOMAIN Iterated(FirstActivity[k]) |->
                [lap |-> k, point |-> Iterated(FirstActivity[k])[i]]]
AllIterated == IteratedUpTo(Len(FirstActivity))
WithPosition(es) == SelectSeq(es, LAMBDA e : e.point.Position.present)
PosNoTime(p) == p.Position.present /\ ~p.Time.present
ExpectedTime(text) ==
    IF text = T1 THEN DatetimeVal("2021-05-01 10:00:00+00:00")
    ELSE DatetimeVal("2021-05-01 10:05:00+00:00")
NoTables == laps_df = NoFrame /\ points_df = NoFrame /\ df = NoFrame

(***************************************************************************)
(* C1: get_tcx_point_data returns one record for a Trackpoint with a       *)
(* Position child and None (never an exception) for one without; so the    *)
(* point table that get_dataframes returns has as many rows as there are   *)
(* iterated Trackpoints with a Position: at most the number iterated, and  *)
(* exactly that number iff every iterated Trackpoint has a Position.       *)
(***************************************************************************)
C1_OneRecordPerPositionedPoint ==
    /\ (fmt = "tcx" /\ pc = "point_done") =>
          single_point_data.kind =
              (IF track[pt_i].Position.present THEN "record" ELSE "none")
    /\ (fmt = "tcx" /\ single_point_data.kind = "raise") =>
          track[pt_i].Position.present
    /\ (fmt = "tcx" /\ pc = "returned") =>
          LET n == Len(points_df.rows)
          IN  /\ n = Len(WithPosition(AllIterated))
              /\ n <= Len(AllIterated)
              /\ (n = Len(AllIterated)) <=>
                    \A i \in DOMAIN AllIterated : AllIterated[i].point.Position.present

C1_Witness ==
    /\ fmt = "tcx" /\ pc = "returned"
    /\ Len(AllIterated) = 2
    /\ Len(points_df.rows) = 1

(***************************************************************************)
(* C2: the lap table has one row per Lap of the first Activity, numbered   *)
(* 1..N in document order whatever the laps hold; row k carries lap k's    *)
(* content, and a lap without point rows still takes its number.           *)
(***************************************************************************)
C2_LapNumbering ==
    /\ fmt = "tcx" =>
          \A k \in DOMAIN laps_data : laps_data[k]["number"] = IntVal(k)
    /\ (fmt = "tcx" /\ pc = "returned") =>
          LET N == Len(FirstActivity)
          IN  /\ Len(laps_df.rows) = N
              /\ Len(laps_df.index) = N
              /\ \A k \in 1..N :
                    /\ laps_df.index[k] = IntVal(k)
                    /\ laps_df.rows[k]["start_time"] =
                          ExpectedTime(FirstActivity[k].StartTime.text)
                    /\ (laps_df.rows[k]["total_time"] = Null) <=>
                          ~FirstActivity[k].TotalTimeSeconds.present

C2_Witness ==
    /\ fmt = "tcx" /\ pc = "returned"
    /\ Len(laps_df.rows) = 2
    /\ laps_df.rows[1]["start_time"] # laps_df.rows[2]["start_time"]
    /\ Len(points_df.rows) >= 1
    /\ \A i \in DOMAIN points_df.rows : points_df.rows[i]["lap"] = IntVal(2)

(***************************************************************************)
(* C3: the rows of the point table are the emitted Trackpoints in document *)
(* order, each with the 1-based position of its enclosing Lap in `lap`; so *)
(* the lap column never decreases and stays within 1..N.                   *)
(***************************************************************************)
C3_PointOrder ==
    (fmt = "tcx" /\ pc = "returned") =>
        LET expected == WithPosition(AllIterated)
            rows == points_df.rows
        IN  /\ Len(rows) = Len(expected)
            /\ \A i \in DOMAIN rows :
                  /\ rows[i]["lap"] = IntVal(expected[i].lap)
                  /\ rows[i]["time"] = ExpectedTime(expected[i].point.Time.text)
                  /\ (rows[i]["speed"] = Null) <=> ~expected[i].point.Speed.present
                  /\ rows[i]["lap"].n \in 1..Len(FirstActivity)
            /\ \A i, j \in DOMAIN rows : i < j => rows[i]["lap"].n <= rows[j]["lap"].n

C3_Witness ==
    /\ fmt = "tcx" /\ pc = "returned"
    /\ Len(points_df.rows) = 2
    /\ points_df.rows[1]["lap"] = points_df.rows[2]["lap"]
    /\ points_df.rows[1]["time"] # points_df.rows[2]["time"]

(***************************************************************************)
(* C7: get_dataframe_from_gpx filters nothing: every point of the first    *)
(* segment of the first track gives one record, so the returned table has  *)
(* one row per point of that segment, in the segment's order, and no row   *)
(* from any other segment or track.                                        *)
(***************************************************************************)
C7_GpxNoFiltering ==
    /\ (fmt = "gpx" /\ pc = "gpx_points") =>
          /\ segment = file.tracks[1][1]
          /\ Len(data) = pt_i - 1
    /\ (fmt = "gpx" /\ pc = "returned") =>
          LET points == file.tracks[1][1]
          IN  /\ Len(df.rows) = Len(points)
              /\ \A i \in DOMAIN points :
                    /\ df.rows[i]["time"] = points[i].time
                    /\ (df.rows[i]["heart_rate"] = Null) <=>
                          ~points[i].extensions[1].hr.present
                    /\ (df.rows[i]["cadence"] = Null) <=>
                          ~points[i].extensions[1].cad.present

C7_Witness ==
    /\ fmt = "gpx" /\ pc = "returned"
    /\ Len(file.tracks) = 2 /\ Len(file.tracks[1]) = 2
    /\ Len(df.rows) = 2
    /\ df.rows[1]["heart_rate"] = Null
    /\ df.rows[2]["heart_rate"] # Null

(***************************************************************************)
(* C8: a Trackpoint with a Position but no Time is neither skipped nor     *)
(* emitted: its extraction raises, the exception ends get_dataframes and   *)
(* no table is returned, however many laps and points came before it; a    *)
(* Trackpoint with neither Position nor Time is skipped without failure.   *)
(***************************************************************************)
C8_MissingTimeAborts ==
    /\ (fmt = "tcx" /\ pc = "point_done") =>
          /\ ~PosNoTime(track[pt_i])
          /\ (~track[pt_i].Position.present /\ ~track[pt_i].Time.present) =>
                single_point_data.kind = "none"
    /\ (fmt = "tcx" /\ single_point_data.kind = "raise") =>
          /\ PosNoTime(track[pt_i])
          /\ pc = "raised" /\ exc = "AttributeError"
    /\ (TcxHasActivity /\ \E i \in DOMAIN AllIterated : PosNoTime(AllIterated[i].point)) =>
          pc # "returned" /\ NoTables
    /\ (fmt = "tcx" /\ pc \in {"points", "point_done"}) =>
          Len(points_data) =
              Len(WithPosition(IteratedUpTo(lap_i - 1)))
              + Cardinality({i \in 1..(pt_i - 1) : track[i].Position.present})

C8_Witness ==
    /\ fmt = "tcx" /\ pc = "raised"
    /\ single_point_data.kind = "raise"
    /\ PosNoTime(track[pt_i])
    /\ Len(laps_data) = 2
    /\ Len(points_data) = 1

(***************************************************************************)
(* C9: only the first Activity is read: the laps iterated are its laps,    *)
(* and in a file with further Activity elements the tables hold its laps   *)
(* and its Trackpoints only, numbered as if it were alone.                 *)
(***************************************************************************)
C9_FirstActivityOnly ==
    (TcxHasActivity /\ Len(file.activities) > 1) =>
        /\ pc \in {"laps", "points", "point_done", "returned"} => laps = FirstActivity
        /\ pc = "returned" =>
              /\ Len(laps_df.rows) = Len(FirstActivity)
              /\ \A k \in DOMAIN laps_df.index : laps_df.index[k] = IntVal(k)
              /\ Len(points_df.rows) = Len(WithPosition(AllIterated))
              /\ \A i \in DOMAIN points_df.rows :
                    points_df.rows[i]["lap"].n \in 1..Len(FirstActivity)

C9_Witness ==
    /\ fmt = "tcx" /\ pc = "returned"
    /\ Len(file.activities) = 2
    /\ Len(laps_df.rows) = 1
    /\ Len(points_df.rows) = 1

(***************************************************************************)
(* C10: a Lap without a Track child makes get_dataframes fail, whatever    *)
(* else the file holds: the exception is raised after the lap's record was *)
(* appended to laps_data, and no table is returned.                        *)
(***************************************************************************)
C10_LapWithoutTrackFails ==
    /\ (TcxHasActivity /\ \E k \in DOMAIN FirstActivity : FirstActivity[k].tracks = <<>>) =>
          pc # "returned" /\ NoTables
    /\ (TcxHasActivity /\ pc = "raised" /\ single_point_data.kind # "raise") =>
          LET lap == laps[lap_i]
          IN  IF lap.MaximumHeartRateBpm.present /\ ~lap.MaximumHeartRateBpm.Value.present
              THEN Len(laps_data) = lap_i - 1
              ELSE /\ lap.tracks = <<>>
                   /\ exc = "AttributeError"
                   /\ Len(laps_data) = lap_i
                   /\ laps_data[lap_i]["number"] = IntVal(lap_i)
                   /\ laps_data[lap_i]["start_time"] = ExpectedTime(lap.StartTime.text)

C10_Witness ==
    /\ fmt = "tcx" /\ pc = "raised"
    /\ single_point_data.kind # "raise"
    /\ laps # <<>> /\ laps[lap_i].tracks = <<>>
    /\ Len(laps_data) = 2
    /\ Len(points_data) >= 1

(***************************************************************************)
(* What a file of one lap with one Trackpoint, or of one GPX point, says.  *)
(***************************************************************************)
TheLap == file.activities[1][1]
ThePoint == TheLap.tracks[1][1]
TheGpxPoint == file.tracks[1][1][1]
FloatTexts == {"1000", "1609.34", "65.0", "150", "80", "3.5", "12.5", "53.3", "-6.2"}
IntTexts == {"1000", "150", "80"}
TimeTexts == {T1, T2}
ExpectedFloat(text) ==
    FloatVal(IF text \in {"1000", "150", "80"}
             THEN (CASE text = "1000" -> "1000.0" [] text = "150" -> "150.0"
                     [] OTHER -> "80.0")
             ELSE text)
ExpectedInt(text) ==
    IntVal(CASE text = "1000" -> 1000 [] text = "150" -> 150 [] OTHER -> 80)
Malformed(elem, texts) == elem.present /\ elem.text \notin texts
WrapMalformed(elem, texts) ==
    elem.present /\ (~elem.Value.present \/ elem.Value.text \notin texts)

\* The lap lacks its StartTime, or holds an element that does not convert.
LapDefect(lap) ==
    \/ ~lap.StartTime.present
    \/ Malformed(lap.StartTime, TimeTexts)
    \/ Malformed(lap.DistanceMeters, FloatTexts)
    \/ Malformed(lap.TotalTimeSeconds, FloatTexts)
    \/ Malformed(lap.MaximumSpeed, FloatTexts)
    \/ WrapMalformed(lap.MaximumHeartRateBpm, FloatTexts)
    \/ WrapMalformed(lap.AverageHeartRateBpm, FloatTexts)

\* The Trackpoint has a Position but lacks a coordinate or its Time, or
\* holds an element that does not convert.
PointDefect(p) ==
    /\ p.Position.present
    /\ \/ ~p.Position.LatitudeDegrees.present
       \/ ~p.Position.LongitudeDegrees.present
       \/ Malformed(p.Position.LatitudeDegrees, FloatTexts)
       \/ Malformed(p.Position.LongitudeDegrees, FloatTexts)
       \/ ~p.Time.present
       \/ Malformed(p.Time, TimeTexts)
       \/ Malformed(p.AltitudeMeters, FloatTexts)
       \/ WrapMalformed(p.HeartRateBpm, IntTexts)
       \/ Malformed(p.Cadence, IntTexts)
       \/ Malformed(p.Speed, FloatTexts)

\* The first extension of the GPX point holds a tag that does not convert.
GpxTagDefect(p) ==
    /\ p.extensions # <<>>
    /\ \/ Malformed(p.extensions[1].hr, IntTexts)
       \/ Malformed(p.extensions[1].cad, IntTexts)

\* The key is in the record exactly when its element is in the input, and
\* then with the element's converted value: never a default.
Field(rec, key, present, value) ==
    /\ (key \in DOMAIN rec) <=> present
    /\ present => rec[key] = value
\* The cell is null exactly when the element is absent from the input.
Cell(row, key, present, value) ==
    /\ key \in DOMAIN row
    /\ row[key] = (IF present THEN value ELSE Null)

LapExtracted == fmt = "tcx" /\ pc # "start" /\ ~(pc = "laps" /\ lap_i = 1)
PointExtracted ==
    /\ fmt = "tcx"
    /\ \/ pc \in {"point_done", "returned"}
       \/ pc = "points" /\ pt_i = 2
       \/ pc = "laps" /\ lap_i = 2
       \/ single_point_data.kind = "raise"
GpxExtracted == fmt = "gpx" /\ (pc \in {"raised", "returned"} \/ pt_i = 2)

\* The optional fields of a lap, a Trackpoint and a GPX point: the key, whether
\* the input holds its element, and the value the element converts to.
OptionalField(key, present, value) ==
    [key |-> key, present |-> present, value |-> value]
LapFields ==
    {OptionalField("distance", TheLap.DistanceMeters.present,
                   ExpectedFloat(TheLap.DistanceMeters.text)),
     OptionalField("total_time", TheLap.TotalTimeSeconds.present,
                   [type |-> "timedelta", seconds |-> TheLap.TotalTimeSeconds.text]),
     OptionalField("max_speed", TheLap.MaximumSpeed.present,
                   ExpectedFloat(TheLap.MaximumSpeed.text)),
     OptionalField("max_hr", TheLap.MaximumHeartRateBpm.present,
                   ExpectedFloat(TheLap.MaximumHeartRateBpm.Value.text)),
     OptionalField("avg_hr", TheLap.AverageHeartRateBpm.present,
                   ExpectedFloat(TheLap.AverageHeartRateBpm.Value.text))}
PointFields ==
    {OptionalField("elevation", ThePoint.AltitudeMeters.present,
                   ExpectedFloat(ThePoint.AltitudeMeters.text)),
     OptionalField("heart_rate", ThePoint.HeartRateBpm.present,
                   ExpectedInt(ThePoint.HeartRateBpm.Value.text)),
     OptionalField("cadence", ThePoint.Cadence.present,
                   ExpectedInt(ThePoint.Cadence.text)),
     OptionalField("speed", ThePoint.Speed.present,
                   ExpectedFloat(ThePoint.Speed.text))}
GpxFields ==
    {OptionalField("heart_rate", TheGpxPoint.extensions[1].hr.present,
                   ExpectedInt(TheGpxPoint.extensions[1].hr.text)),
     OptionalField("cadence", TheGpxPoint.extensions[1].cad.present,
                   ExpectedInt(TheGpxPoint.extensions[1].cad.text))}
InRecord(fields, rec) == \A f \in fields : Field(rec, f.key, f.present, f.value)
InTable(fields, row) == \A f \in fields : Cell(row, f.key, f.present, f.value)

\* The optional fields of the three extractors: absent from the record and
\* null in the table when absent from the input, populated when present;
\* and the extractor raises exactly when gpxDefect (format 1), PointDefect
\* or LapDefect holds of its node.
OptionalFields(gpxDefect) ==
    /\ LapExtracted =>
          /\ (laps_data = <<>>) <=> LapDefect(TheLap)
          /\ laps_data # <<>> => InRecord(LapFields, laps_data[1])
    /\ PointExtracted =>
          /\ (single_point_data.kind = "raise") <=> PointDefect(ThePoint)
          /\ (single_point_data.kind = "none") <=> ~ThePoint.Position.present
          /\ single_point_data.kind = "record" =>
                InRecord(PointFields, single_point_data.val)
    /\ (fmt = "tcx" /\ pc = "returned") =>
          /\ InTable(LapFields, laps_df.rows[1])
          /\ points_df.rows # <<>> => InTable(PointFields, points_df.rows[1])
    /\ GpxExtracted =>
          /\ (pc = "raised") <=> gpxDefect
          /\ data # <<>> => InRecord(GpxFields, data[1])
    /\ (fmt = "gpx" /\ pc = "returned") => InTable(GpxFields, df.rows[1])

(***************************************************************************)
(* C4: max_hr and avg_hr are left out of the lap record, and nothing is    *)
(* raised, when MaximumHeartRateBpm or AverageHeartRateBpm is absent and   *)
(* also when it is present without a Value child.                          *)
(***************************************************************************)
C4_HrOmittedWithoutFailure ==
    LET hasValue(elem) == elem.present /\ elem.Value.present
        otherwiseSound ==
            /\ TheLap.StartTime.present /\ TheLap.StartTime.text \in TimeTexts
            /\ ~Malformed(TheLap.DistanceMeters, FloatTexts)
            /\ ~Malformed(TheLap.MaximumHeartRateBpm.Value, FloatTexts)
            /\ ~Malformed(TheLap.AverageHeartRateBpm.Value, FloatTexts)
    IN  (LapExtracted /\ otherwiseSound) =>
            /\ laps_data # <<>>
            /\ ("max_hr" \in DOMAIN laps_data[1]) <=> hasValue(TheLap.MaximumHeartRateBpm)
            /\ ("avg_hr" \in DOMAIN laps_data[1]) <=> hasValue(TheLap.AverageHeartRateBpm)

(***************************************************************************)
(* C5 as stated: the lap table, indexed by number, has the columns         *)
(* start_time, distance_m, total_time, max_speed, max_hr, avg_hr, and the  *)
(* value of DistanceMeters is in the column distance_m.                    *)
(***************************************************************************)
C5_DistanceInDistanceM ==
    (fmt = "tcx" /\ pc = "returned") =>
        /\ Range(laps_df.columns) =
              {"start_time", "distance_m", "total_time", "max_speed", "max_hr", "avg_hr"}
        /\ laps_df.index[1] = IntVal(1)
        /\ TheLap.DistanceMeters.present =>
              /\ "distance_m" \in DOMAIN laps_df.rows[1]
              /\ laps_df.rows[1]["distance_m"] = ExpectedFloat(TheLap.DistanceMeters.text)

(***************************************************************************)
(* C5 amended: the lap table, indexed by number, has the columns           *)
(* start_time, distance, total_time, max_speed, max_hr, avg_hr, and the    *)
(* value of DistanceMeters is in the column distance (there is no column   *)
(* distance_m).                                                            *)
(***************************************************************************)
C5_DistanceInDistance ==
    (fmt = "tcx" /\ pc = "returned") =>
        /\ laps_df.columns =
              <<"start_time", "distance", "total_time", "max_speed", "max_hr", "avg_hr">>
        /\ DOMAIN laps_df.rows[1] = Range(laps_df.columns)
        /\ laps_df.index = <<IntVal(1)>>
        /\ laps_df.rows[1]["distance"] =
              (IF TheLap.DistanceMeters.present
               THEN ExpectedFloat(TheLap.DistanceMeters.text) ELSE Null)

C5_Witness ==
    /\ fmt = "tcx" /\ pc = "returned"
    /\ TheLap.DistanceMeters = Leaf("1000")
    /\ laps_df.index[1] = IntVal(1)
    /\ laps_df.rows[1]["distance"] = FloatVal("1000.0")

=============================================================================
